---- MODULE Spec2Model ----
(***************************************************************************)
(* Model of Pm.py: the Streamlit portfolio page                            *)
(* (portfolio_management_interface and the functions it calls).            *)
(*                                                                         *)
(* Numbers.  numpy float64 values are modelled exactly: a finite value is  *)
(* a reduced fraction [k |-> "num", n, d], and the IEEE specials are       *)
(* [k |-> "nan"] and [k |-> "inf", s].  Square roots are kept symbolic     *)
(* ([k |-> "sqrt", sq]) since only their zero test is ever needed.         *)
(***************************************************************************)
EXTENDS Integers, Sequences, FiniteSets, TLC

\* ---------------------------------------------------------------- bounds
MaxQty == 2          \* largest quantity a holding may reach
MaxRows == 2         \* rows of the downloaded price table
MaxLen == 4          \* longest return series given to the metrics
MaxAssets == 3       \* most assets given to the optimizer
MaxSteps == 3        \* longest simulated path
NumSessions == 2     \* browser sessions of the same user

TradingDays == 252

Tickers == {"AAPL", "MSFT"}
Prices == {1, 2}
Sessions == 1..NumSessions

\* ------------------------------------------------------------ arithmetic
Abs(x) == IF x < 0 THEN -x ELSE x

RECURSIVE GCD(_, _)
GCD(a, b) == IF b = 0 THEN a ELSE GCD(b, a % b)

NaN == [k |-> "nan"]
Inf(s) == [k |-> "inf", s |-> s]

\* the float n/d (d # 0), reduced
F(n, d) ==
    LET g == GCD(Abs(n), Abs(d))
        sg == IF d < 0 THEN -1 ELSE 1
    IN  [k |-> "num", n |-> (sg * n) \div g, d |-> (sg * d) \div g]

Num(n) == F(n, 1)
Zero == Num(0)
IsNum(a) == a.k = "num"
Sign(a) == IF a.n > 0 THEN 1 ELSE IF a.n < 0 THEN -1 ELSE 0

FAdd(a, b) == IF IsNum(a) /\ IsNum(b) THEN F(a.n * b.d + b.n * a.d, a.d * b.d) ELSE NaN
FSub(a, b) == IF IsNum(a) /\ IsNum(b) THEN F(a.n * b.d - b.n * a.d, a.d * b.d) ELSE NaN
FMul(a, b) == IF IsNum(a) /\ IsNum(b) THEN F(a.n * b.n, a.d * b.d) ELSE NaN
FLe(a, b) == IsNum(a) /\ IsNum(b) /\ a.n * b.d <= b.n * a.d
FLt(a, b) == IsNum(a) /\ IsNum(b) /\ a.n * b.d < b.n * a.d

\* numpy float64 division: x/0 is +-inf, 0/0 is nan, nothing is raised
FDiv(a, b) ==
    IF ~(IsNum(a) /\ IsNum(b)) THEN NaN
    ELSE IF b.n = 0 THEN (IF a.n = 0 THEN NaN ELSE Inf(Sign(a)))
    ELSE F(a.n * b.d, a.d * b.n)

RECURSIVE FSum(_)
FSum(s) == IF s = <<>> THEN Zero ELSE FAdd(Head(s), FSum(Tail(s)))

RECURSIVE FProd(_)
FProd(s) == IF s = <<>> THEN Num(1) ELSE FMul(Head(s), FProd(Tail(s)))

Map(s, Op(_)) == [i \in 1..Len(s) |-> Op(s[i])]
FMean(s) == FDiv(FSum(s), Num(Len(s)))

\* the p-th central moment of s (population, ddof = 0)
Moment(s, p) ==
    LET m == FMean(s)
        Pow(x) == FProd([j \in 1..p |-> x])
    IN  FMean(Map(s, LAMBDA x : Pow(FSub(x, m))))

\* np.percentile(s, q), linear interpolation between order statistics
Percentile(s, q) ==
    LET srt == SortSeq(s, FLt)
        pos == (Len(s) - 1) * q
        lo == pos \div 100
        fr == pos % 100
    IN  IF fr = 0 THEN srt[lo + 1]
        ELSE FAdd(srt[lo + 1], FMul(F(fr, 100), FSub(srt[lo + 2], srt[lo + 1])))

\* --------------------------------------------------------------- metrics
AllUndefined ==
    [return |-> NaN, volatility |-> NaN, sharpe_ratio |-> NaN, skewness |-> NaN,
     kurtosis |-> NaN, shapiro_p_value |-> NaN, cumulative_return |-> NaN,
     var_95 |-> NaN, cvar_95 |-> NaN]

\* a faulty variant of the guard, off by one: a single return is computed on
ShortSeriesOnlyEmpty(returns) == Len(returns) < 1

\* the guard of the short-series branch
ShortSeries(returns) == Len(returns) < 2

\* sharpe_ratio = portfolio_return / portfolio_volatility, a float64 division
SharpeRatio(ret, variance) ==
    IF variance.n = 0 THEN FDiv(ret, Zero)
    ELSE [k |-> "quot", num |-> ret,
          den |-> [k |-> "sqrt", sq |-> FMul(variance, Num(TradingDays))]]

\* calculate_portfolio_metrics: [raised, metrics]; scipy.stats.shapiro raises
\* ValueError on fewer than 3 observations.  np.std is the population
\* deviation (ddof = 0); stats.skew and stats.kurtosis give nan on a constant
\* series; the Shapiro-Wilk p-value is kept as an opaque defined value.
calculate_portfolio_metrics(returns) ==
    IF ShortSeries(returns) THEN [raised |-> "none", metrics |-> AllUndefined]
    ELSE IF Len(returns) < 3 THEN [raised |-> "ValueError", metrics |-> <<>>]
    ELSE
      LET portfolio_return == FMul(FMean(returns), Num(TradingDays))
          m2 == Moment(returns, 2)
          var_95 == Percentile(returns, 5)
          tail == SelectSeq(returns, LAMBDA r : FLe(r, var_95))
      IN [raised |-> "none",
          metrics |->
            [return |-> portfolio_return,
             volatility |-> [k |-> "sqrt", sq |-> FMul(m2, Num(TradingDays))],
             sharpe_ratio |-> SharpeRatio(portfolio_return, m2),
             skewness |-> IF m2.n = 0 THEN NaN
                          ELSE [k |-> "skew", m3 |-> Moment(returns, 3), m2 |-> m2],
             kurtosis |-> IF m2.n = 0 THEN NaN
                          ELSE FSub(FDiv(Moment(returns, 4), FMul(m2, m2)), Num(3)),
             shapiro_p_value |-> [k |-> "pvalue"],
             cumulative_return |->
                 FSub(FProd(Map(returns, LAMBDA r : FAdd(Num(1), r))), Num(1)),
             var_95 |-> var_95,
             cvar_95 |-> FMean(tail)]]

\* ------------------------------------------------------------- optimizer
\* what scipy.optimize.minimize may hand back for n weights: on success a
\* vector meeting the bounds and the sum-to-one constraint, otherwise its
\* last iterate, whatever that is
WeightGrid == {Zero, Num(1)}
SolverResults(n) ==
    {r \in [success : BOOLEAN, x : [1..n -> WeightGrid]] :
        r.success => FSum(r.x) = Num(1)}

\* maximize_sharpe_ratio: num_stocks * [1. / num_stocks] divides by zero on
\* no columns (Python float division raises); result.x is returned unchecked
maximize_sharpe_ratio(num_stocks, result) ==
    IF num_stocks = 0
    THEN [raised |-> "ZeroDivisionError", solver_ran |-> FALSE, x |-> <<>>]
    ELSE [raised |-> "none", solver_ran |-> TRUE, x |-> result.x]

\* global_minimum_variance: the same shape, over len(cov_matrix)
global_minimum_variance(num_stocks, result) ==
    IF num_stocks = 0
    THEN [raised |-> "ZeroDivisionError", solver_ran |-> FALSE, x |-> <<>>]
    ELSE [raised |-> "none", solver_ran |-> TRUE, x |-> result.x]

\* perform_portfolio_optimization: fewer than two holdings end in a warning
\* and a plain return; otherwise both problems are solved and displayed
perform_portfolio_optimization(num_held, num_stocks, msr_result, gmv_result) ==
    IF num_held < 2
    THEN [raised |-> "none", warning |-> TRUE, solver_ran |-> FALSE,
          msr_weights |-> <<>>, gmv_weights |-> <<>>]
    ELSE LET msr == maximize_sharpe_ratio(num_stocks, msr_result)
             gmv == global_minimum_variance(num_stocks, gmv_result)
         IN  IF msr.raised # "none"
             THEN [raised |-> msr.raised, warning |-> FALSE, solver_ran |-> FALSE,
                   msr_weights |-> <<>>, gmv_weights |-> <<>>]
             ELSE [raised |-> gmv.raised, warning |-> FALSE, solver_ran |-> TRUE,
                   msr_weights |-> msr.x, gmv_weights |-> gmv.x]

\* ----------------------------------------------------------- monte carlo
\* np.random.normal draws, on a grid of log-2 steps
Draws == {-1, 1}

\* st.slider("Number of iterations", ...): the path counts on offer, scaled down
Iterations == {1, 2}

RECURSIVE Pow2(_)
Pow2(c) == IF c = 0 THEN Num(1)
           ELSE IF c > 0 THEN FMul(Num(2), Pow2(c - 1))
           ELSE FMul(F(1, 2), Pow2(c + 1))

RECURSIVE CumSum(_)
CumSum(s) ==
    IF s = <<>> THEN <<>>
    ELSE LET front == CumSum(SubSeq(s, 1, Len(s) - 1))
         IN  Append(front, (IF front = <<>> THEN 0 ELSE front[Len(front)]) + s[Len(s)])

\* simulated_returns = exp(simulations.cumsum(axis=1)), base 2 for exp
SimulatedReturns(simulations) ==
    [i \in 1..Len(simulations) |-> Map(CumSum(simulations[i]), Pow2)]

RECURSIVE Flatten(_)
Flatten(rows) == IF rows = <<>> THEN <<>> ELSE Head(rows) \o Flatten(Tail(rows))

\* simulated_returns[mask].mean(): a boolean mask over rows keeps whole rows,
\* and mean() averages every entry of the rows kept
MaskedMean(simulated_returns, var_95) ==
    FMean(Flatten(SelectSeq(simulated_returns,
                            LAMBDA path : FLe(path[Len(path)], var_95))))

\* the mean of the terminal values at or below var_95 (the tail mean of the
\* terminal-value distribution)
TerminalTailMean(simulated_returns, var_95) ==
    FMean(SelectSeq(Map(simulated_returns, LAMBDA path : path[Len(path)]),
                    LAMBDA v : FLe(v, var_95)))

\* perform_monte_carlo_var: simulations is the (iterations, len(returns))
\* matrix of draws; with no column, [:, -1] raises IndexError
perform_monte_carlo_var(num_held, simulations) ==
    IF num_held < 2
    THEN [raised |-> "none", warning |-> TRUE, var_95 |-> NaN, cvar_95 |-> NaN,
          terminal |-> <<>>]
    ELSE IF \E i \in 1..Len(simulations) : simulations[i] = <<>>
    THEN [raised |-> "IndexError", warning |-> FALSE, var_95 |-> NaN, cvar_95 |-> NaN,
          terminal |-> <<>>]
    ELSE LET simulated_returns == SimulatedReturns(simulations)
             terminal == Map(simulated_returns, LAMBDA path : path[Len(path)])
             var_95 == Percentile(terminal, 5)
         IN  [raised |-> "none", warning |-> FALSE, var_95 |-> var_95,
              cvar_95 |-> MaskedMean(simulated_returns, var_95),
              terminal |-> terminal]

\* ------------------------------------------------------------- holdings
\* A portfolio is a Python dict: keys in insertion order.  It is a sequence
\* of [t |-> ticker, q |-> quantity] with distinct tickers.
Keys(portfolio) == [i \in 1..Len(portfolio) |-> portfolio[i].t]
Has(portfolio, t) == \E i \in 1..Len(portfolio) : portfolio[i].t = t
Get(portfolio, t) == (CHOOSE i \in 1..Len(portfolio) : portfolio[i].t = t)
Qty(portfolio, t) == IF Has(portfolio, t) THEN portfolio[Get(portfolio, t)].q ELSE 0

\* a faulty variant of the input: number_input without min_value=1
QuantityInputsFromZero == 0..MaxQty

\* st.number_input("Enter quantity:", min_value=1, step=1)
QuantityInputs == 1..MaxQty

\* portfolio[new_stock] += new_quantity, or a new key at the end
AddTo(portfolio, new_stock, new_quantity) ==
    IF Has(portfolio, new_stock)
    THEN [portfolio EXCEPT ![Get(portfolio, new_stock)].q = @ + new_quantity]
    ELSE Append(portfolio, [t |-> new_stock, q |-> new_quantity])

\* ------------------------------------------------------------- messages
Msg(level, text, about) == [level |-> level, text |-> text, about |-> about]
StockValueError(t) == Msg("error", "Error fetching stock value", t)
EmptyInfo == Msg("info", "Your portfolio is empty", "")
AddedSuccess(t) == Msg("success", "Added shares to your portfolio", t)
ProcessingError == Msg("error", "An error occurred while processing your portfolio", "")
OptimizationWarning == Msg("warning", "Portfolio optimization requires at least two stocks", "")
MonteCarloWarning == Msg("warning", "Monte Carlo VaR simulation requires at least two stocks", "")

\* get_stock_value: an exception is shown with st.error and becomes the value 0
get_stock_value(ticker, quantity, price, fails) ==
    IF fails THEN [value |-> 0, shown |-> {StockValueError(ticker)}]
    ELSE [value |-> price * quantity, shown |-> {}]

\* the price the quote service reports for a ticker
CurrentPrice(t) == IF t = "AAPL" THEN 2 ELSE 1

\* display_current_portfolio: the messages shown and the total value charted
display_current_portfolio(portfolio, failing) ==
    IF portfolio # <<>>
    THEN LET row(i) == get_stock_value(portfolio[i].t, portfolio[i].q,
                                       CurrentPrice(portfolio[i].t),
                                       portfolio[i].t \in failing)
         IN  [shown |-> UNION {row(i).shown : i \in 1..Len(portfolio)},
              total_value |-> FSum([i \in 1..Len(portfolio) |-> Num(row(i).value)]).n]
    ELSE [shown |-> {EmptyInfo}, total_value |-> 0]

\* ------------------------------------------------------------ price data
TickerRank(t) == IF t = "AAPL" THEN 1 ELSE 2

\* yf.download lays the columns of a multi-ticker table out in sorted order
DownloadColumns(tickers) == SortSeq(tickers, LAMBDA a, b : TickerRank(a) < TickerRank(b))

PriceSeries == [1..MaxRows -> {Num(p) : p \in Prices}]
MissingSeries == [i \in 1..MaxRows |-> NaN]

\* DataFrame.fillna(method='pad') / the fill pct_change does first: a missing
\* cell takes the last value above it
RECURSIVE Pad(_)
Pad(col) ==
    IF Len(col) <= 1 THEN col
    ELSE LET front == Pad(SubSeq(col, 1, Len(col) - 1))
             last == col[Len(col)]
         IN  Append(front, IF IsNum(last) THEN last ELSE front[Len(front)])

\* one column's pct_change: NaN in the first row, then (p[t] - p[t-1]) / p[t-1]
PctChange(col) ==
    LET f == Pad(col)
    IN  [i \in 1..Len(col) |->
            IF i = 1 THEN NaN ELSE FDiv(FSub(f[i], f[i - 1]), f[i - 1])]

\* data.pct_change().dropna(): the rows (one value per column) with no NaN
Returns(data) ==
    LET pct == Map(data, PctChange)
        rows == [i \in 1..MaxRows |-> [c \in 1..Len(data) |-> pct[c][i]]]
    IN  SelectSeq(rows, LAMBDA row : \A c \in 1..Len(row) : IsNum(row[c]))

\* weights = np.array([portfolio[ticker] for ticker in tickers]) / np.sum(...)
Weights(portfolio) ==
    LET total == FSum([i \in 1..Len(portfolio) |-> Num(portfolio[i].q)])
    IN  [i \in 1..Len(portfolio) |-> FDiv(Num(portfolio[i].q), total)]

\* returns * weights[0] for one holding (the one-column frame is read as a
\* series), returns.dot(weights) otherwise: the ndarray is matched to the
\* columns by position
PortfolioReturns(returns, weights) ==
    IF Len(weights) = 1
    THEN [r \in 1..Len(returns) |-> FMul(returns[r][1], weights[1])]
    ELSE [r \in 1..Len(returns) |->
            FSum([c \in 1..Len(weights) |-> FMul(returns[r][c], weights[c])])]

\* ----------------------------------------------------------------- state
VARIABLES
    store,       \* the user's persisted holdings (user_data["portfolio"])
    pc,          \* per session: where its run of the page stands
    portfolio,   \* per session: the dict the run loaded
    messages,    \* per session: what the run has shown (st.error, st.info, ...)
    raised,      \* per session: where an exception was raised during the run
    outcome,     \* per session: how the call ended for its caller
    added,       \* per ticker: the quantity the page has confirmed as added
    view,        \* per session: what the run computed from the price data
    call,        \* a pending call of one of the computations, with its inputs
    ret          \* what that call returned

vars == <<store, pc, portfolio, messages, raised, outcome, added, view, call, ret>>
sessionVars == <<store, pc, portfolio, messages, raised, outcome, added, view>>

KeySet(p) == {p[i].t : i \in 1..Len(p)}

NoResult == [raised |-> "none"]
NoView ==
    [reached |-> FALSE, tickers |-> <<>>, columns |-> <<>>, failed |-> {},
     returns |-> <<>>, weights |-> <<>>, portfolio_returns |-> <<>>,
     selected |-> "", result |-> NoResult]
NoCall == [fn |-> "none"]
Pending == [done |-> FALSE]

analysis_options ==
    {"Portfolio Overview", "Portfolio Analysis", "Portfolio Optimization",
     "Monte Carlo Simulation"}

InitSessions ==
    /\ store = <<>>
    /\ pc = [s \in Sessions |-> "idle"]
    /\ portfolio = [s \in Sessions |-> <<>>]
    /\ messages = [s \in Sessions |-> {}]
    /\ raised = [s \in Sessions |-> {}]
    /\ outcome = [s \in Sessions |-> "none"]
    /\ added = [t \in Tickers |-> 0]
    /\ view = [s \in Sessions |-> NoView]

Init == InitSessions /\ call = NoCall /\ ret = Pending

\* the holdings store: load(userId) -> HoldingsMap
load_user_data(stored) == stored

\* the holdings store: save(userId, HoldingsMap)
save_user_data(holdings) == holdings

\* except Exception as e: pass -- the run ends as if nothing had happened
Swallow(s, site) ==
    /\ raised' = [raised EXCEPT ![s] = @ \cup {site}]
    /\ outcome' = [outcome EXCEPT ![s] = "returned"]
    /\ pc' = [pc EXCEPT ![s] = "done"]

\* lines 258-261: a run of the page starts by loading the user's data
Load(s) ==
    /\ pc[s] \in {"idle", "done"}
    /\ messages' = [messages EXCEPT ![s] = {}]
    /\ view' = [view EXCEPT ![s] = NoView]
    /\ \E ok \in BOOLEAN :
         IF ok
         THEN /\ portfolio' = [portfolio EXCEPT ![s] = load_user_data(store)]
              /\ raised' = [raised EXCEPT ![s] = {}]
              /\ outcome' = [outcome EXCEPT ![s] = "running"]
              /\ pc' = [pc EXCEPT ![s] = "loaded"]
         ELSE /\ portfolio' = [portfolio EXCEPT ![s] = <<>>]
              /\ raised' = [raised EXCEPT ![s] = {"load_user_data"}]
              /\ outcome' = [outcome EXCEPT ![s] = "returned"]
              /\ pc' = [pc EXCEPT ![s] = "done"]
    /\ UNCHANGED <<store, added, call, ret>>

\* line 263: the allocation table; a failing quote is shown and valued 0
Display(s) ==
    /\ pc[s] = "loaded"
    /\ \E failing \in SUBSET KeySet(portfolio[s]) :
         /\ messages' = [messages EXCEPT
                ![s] = @ \cup display_current_portfolio(portfolio[s], failing).shown]
         /\ raised' = [raised EXCEPT
                ![s] = @ \cup (IF failing = {} THEN {} ELSE {"get_stock_value"})]
    /\ pc' = [pc EXCEPT ![s] = "displayed"]
    /\ UNCHANGED <<store, portfolio, outcome, added, view, call, ret>>

\* line 264, add_stock_to_portfolio: the button was not pressed in this run
NoAdd(s) ==
    /\ pc[s] = "displayed"
    /\ pc' = [pc EXCEPT ![s] = "added"]
    /\ UNCHANGED <<store, portfolio, messages, raised, outcome, added, view, call, ret>>

\* line 264, add_stock_to_portfolio with the button pressed: the run's dict
\* is updated, the user's data is loaded again, its "portfolio" is replaced by
\* the run's dict, and the whole is saved
AddStock(s) ==
    /\ pc[s] = "displayed"
    /\ \E new_stock \in Tickers, new_quantity \in QuantityInputs,
          io \in {"ok", "load_user_data", "save_user_data"} :
         /\ Qty(portfolio[s], new_stock) + new_quantity <= MaxQty
         /\ portfolio' = [portfolio EXCEPT ![s] = AddTo(@, new_stock, new_quantity)]
         /\ IF io = "ok"
            THEN /\ store' = save_user_data(portfolio'[s])
                 /\ messages' = [messages EXCEPT ![s] = @ \cup {AddedSuccess(new_stock)}]
                 /\ added' = [added EXCEPT ![new_stock] = @ + new_quantity]
                 /\ pc' = [pc EXCEPT ![s] = "added"]
                 /\ UNCHANGED <<raised, outcome>>
            ELSE /\ Swallow(s, io)
                 /\ UNCHANGED <<store, messages, added>>
    /\ UNCHANGED <<view, call, ret>>

\* what one analysis of the sidebar does: the exception it raises (if any),
\* the messages it shows, the sites of the exceptions handled on the way,
\* and the value it computes.  One element per outcome of the quote service,
\* the solver and the random source.
Outcome(raisedBy, shown, sites, value) ==
    [raised |-> raisedBy, shown |-> shown, sites |-> sites, value |-> value]

AnalysisOutcomes(selected, portfolio_returns, returns, held) ==
    LET metrics == calculate_portfolio_metrics(portfolio_returns)
        n == Len(held)
        T == Len(returns)
    IN  CASE selected = "Portfolio Overview" ->
               {Outcome(metrics.raised,
                        display_current_portfolio(held, failing).shown,
                        IF failing = {} THEN {} ELSE {"get_stock_value"},
                        metrics) : failing \in SUBSET KeySet(held)}
          [] selected = "Portfolio Analysis" ->
               {Outcome(metrics.raised, {}, {}, metrics)}
          [] selected = "Portfolio Optimization" ->
               IF n < 2
               THEN {Outcome("none", {OptimizationWarning}, {},
                             perform_portfolio_optimization(n, n, <<>>, <<>>))}
               ELSE {Outcome(perform_portfolio_optimization(n, n, msr, gmv).raised, {}, {},
                             perform_portfolio_optimization(n, n, msr, gmv)) :
                        msr \in SolverResults(n), gmv \in SolverResults(n)}
          [] selected = "Monte Carlo Simulation" ->
               IF n < 2
               THEN {Outcome("none", {MonteCarloWarning}, {},
                             perform_monte_carlo_var(n, <<>>))}
               ELSE {Outcome(perform_monte_carlo_var(n, sim).raised, {}, {},
                             perform_monte_carlo_var(n, sim)) :
                        sim \in UNION {[1..iterations -> [1..T -> Draws]] :
                                          iterations \in Iterations}}

\* lines 266-308 with holdings: the prices are downloaded, turned into
\* returns and weights, and the analysis picked in the sidebar runs.  A
\* ticker whose download fails comes back as a column of NaN.  An exception
\* anywhere in the analysis is shown by the inner handler.
Process(s) ==
    /\ pc[s] = "added"
    /\ portfolio[s] # <<>>
    /\ LET held == portfolio[s]
           tickers == Keys(held)
           columns == DownloadColumns(tickers)
       IN \E data \in [1..Len(tickers) -> PriceSeries \cup {MissingSeries}],
             selected \in analysis_options :
            LET failed == {columns[c] : c \in {i \in 1..Len(columns) : data[i] = MissingSeries}}
                filled == IF Len(tickers) = 2 THEN Map(data, Pad) ELSE data
                returns == Returns(filled)
                weights == Weights(held)
                portfolio_returns == PortfolioReturns(returns, weights)
            IN \E o \in AnalysisOutcomes(selected, portfolio_returns, returns, held) :
                 /\ view' = [view EXCEPT ![s] =
                        [reached |-> TRUE, tickers |-> tickers, columns |-> columns,
                         failed |-> failed, returns |-> returns, weights |-> weights,
                         portfolio_returns |-> portfolio_returns,
                         selected |-> selected, result |-> o.value]]
                 /\ messages' = [messages EXCEPT ![s] =
                        @ \cup o.shown
                          \cup (IF o.raised = "none" THEN {} ELSE {ProcessingError})]
                 /\ raised' = [raised EXCEPT ![s] =
                        @ \cup o.sites
                          \cup (IF o.raised = "none" THEN {} ELSE {selected})]
    /\ outcome' = [outcome EXCEPT ![s] = "returned"]
    /\ pc' = [pc EXCEPT ![s] = "done"]
    /\ UNCHANGED <<store, portfolio, added, call, ret>>

\* lines 272-273 and 305-306: yf.download itself raises; the inner handler
\* shows the error and nothing is analysed
DownloadRaises(s) ==
    /\ pc[s] = "added"
    /\ portfolio[s] # <<>>
    /\ messages' = [messages EXCEPT ![s] = @ \cup {ProcessingError}]
    /\ raised' = [raised EXCEPT ![s] = @ \cup {"yf.download"}]
    /\ outcome' = [outcome EXCEPT ![s] = "returned"]
    /\ pc' = [pc EXCEPT ![s] = "done"]
    /\ UNCHANGED <<store, portfolio, added, view, call, ret>>

\* lines 307-308: no holdings, nothing to analyse
EmptyPortfolio(s) ==
    /\ pc[s] = "added"
    /\ portfolio[s] = <<>>
    /\ messages' = [messages EXCEPT ![s] = @ \cup {EmptyInfo}]
    /\ outcome' = [outcome EXCEPT ![s] = "returned"]
    /\ pc' = [pc EXCEPT ![s] = "done"]
    /\ UNCHANGED <<store, portfolio, raised, added, view, call, ret>>

\* one session running the page again and again
Next ==
    \E s \in {1} :
        \/ Load(s)
        \/ Display(s)
        \/ NoAdd(s)
        \/ AddStock(s)
        \/ Process(s)
        \/ DownloadRaises(s)
        \/ EmptyPortfolio(s)

Spec == Init /\ [][Next]_vars

\* ------------------------------------------------- concurrent sessions
\* lines 266-308 as seen from the holdings: whatever is downloaded and
\* analysed, neither the store nor the run's dict is written
Finish(s) ==
    /\ pc[s] = "added"
    /\ outcome' = [outcome EXCEPT ![s] = "returned"]
    /\ pc' = [pc EXCEPT ![s] = "done"]
    /\ UNCHANGED <<store, portfolio, messages, raised, added, view, call, ret>>

\* every session of the user running the page, one step at a time
NextSessions ==
    \E s \in Sessions :
        \/ Load(s)
        \/ Display(s)
        \/ NoAdd(s)
        \/ AddStock(s)
        \/ Finish(s)

SpecSessions == Init /\ [][NextSessions]_vars

\* ------------------------------------------------- the metrics, called
ReturnValues == {F(-1, 2), Zero, F(1, 2)}
ReturnSeriesInputs == UNION {[1..n -> ReturnValues] : n \in 0..MaxLen}

InitMetrics ==
    /\ InitSessions
    /\ call \in {[fn |-> "calculate_portfolio_metrics", returns |-> r] :
                    r \in ReturnSeriesInputs}
    /\ ret = Pending

CalculatePortfolioMetrics ==
    /\ call.fn = "calculate_portfolio_metrics"
    /\ ~ret.done
    /\ ret' = [done |-> TRUE, out |-> calculate_portfolio_metrics(call.returns)]
    /\ UNCHANGED <<sessionVars, call>>

SpecMetrics == InitMetrics /\ [][CalculatePortfolioMetrics]_vars

\* ----------------------------------------------- the optimizer, called
InitOptimizer ==
    /\ InitSessions
    /\ call \in {[fn |-> f, num_stocks |-> n] :
                    f \in {"perform_portfolio_optimization", "maximize_sharpe_ratio",
                           "global_minimum_variance"},
                    n \in 0..MaxAssets}
    /\ ret = Pending

\* the solver is reached only with at least one weight to solve for
SolverOutcomes(n) == IF n = 0 THEN {[success |-> FALSE, x |-> <<>>]} ELSE SolverResults(n)

MaximizeSharpeRatio ==
    /\ call.fn = "maximize_sharpe_ratio"
    /\ ~ret.done
    /\ \E result \in SolverOutcomes(call.num_stocks) :
         ret' = [done |-> TRUE, solver |-> <<result>>,
                 out |-> maximize_sharpe_ratio(call.num_stocks, result)]
    /\ UNCHANGED <<sessionVars, call>>

GlobalMinimumVariance ==
    /\ call.fn = "global_minimum_variance"
    /\ ~ret.done
    /\ \E result \in SolverOutcomes(call.num_stocks) :
         ret' = [done |-> TRUE, solver |-> <<result>>,
                 out |-> global_minimum_variance(call.num_stocks, result)]
    /\ UNCHANGED <<sessionVars, call>>

PerformPortfolioOptimization ==
    /\ call.fn = "perform_portfolio_optimization"
    /\ ~ret.done
    /\ \E msr \in SolverOutcomes(IF call.num_stocks < 2 THEN 0 ELSE call.num_stocks),
          gmv \in SolverOutcomes(IF call.num_stocks < 2 THEN 0 ELSE call.num_stocks) :
         ret' = [done |-> TRUE, solver |-> <<msr, gmv>>,
                 out |-> perform_portfolio_optimization(call.num_stocks, call.num_stocks,
                                                        msr, gmv)]
    /\ UNCHANGED <<sessionVars, call>>

NextOptimizer ==
    \/ MaximizeSharpeRatio
    \/ GlobalMinimumVariance
    \/ PerformPortfolioOptimization

SpecOptimizer == InitOptimizer /\ [][NextOptimizer]_vars

\* ------------------------------------------- the simulation, called
InitMonteCarlo ==
    /\ InitSessions
    /\ call \in {[fn |-> "perform_monte_carlo_var", num_held |-> h, simulations |-> sim] :
                    h \in 1..2,
                    sim \in UNION {[1..iterations -> [1..T -> Draws]] :
                                      iterations \in Iterations, T \in 0..MaxSteps}}
    /\ ret = Pending

PerformMonteCarloVar ==
    /\ call.fn = "perform_monte_carlo_var"
    /\ ~ret.done
    /\ ret' = [done |-> TRUE,
               out |-> perform_monte_carlo_var(call.num_held, call.simulations)]
    /\ UNCHANGED <<sessionVars, call>>

SpecMonteCarlo == InitMonteCarlo /\ [][PerformMonteCarloVar]_vars

\* ============================================================= properties
MetricFields ==
    {"return", "volatility", "sharpe_ratio", "skewness", "kurtosis",
     "shapiro_p_value", "cumulative_return", "var_95", "cvar_95"}

MetricsReturned == call.fn = "calculate_portfolio_metrics" /\ ret.done

\* C1: for every return series of length 0 or 1, calculate_portfolio_metrics
\* raises nothing and returns all nine fields as the undefined marker (NaN),
\* none of them 0.
C1_ShortSeriesAllUndefined ==
    (MetricsReturned /\ Len(call.returns) < 2) =>
        /\ ret.out.raised = "none"
        /\ DOMAIN ret.out.metrics = MetricFields
        /\ \A f \in MetricFields :
              ret.out.metrics[f] = NaN /\ ret.out.metrics[f] # Zero

C1_Witness ==
    /\ MetricsReturned
    /\ Len(call.returns) = 1
    /\ ret.out.raised = "none"
    /\ ret.out.metrics = AllUndefined

\* C6: whenever metrics are returned for a return series of length >= 2:
\* with zero volatility (all returns equal) sharpe_ratio is the undefined
\* marker (NaN), not the result of a division by zero; with non-zero
\* volatility it is the annualized return over the annualized volatility.
C6_ZeroVolatilitySharpeUndefined ==
    (MetricsReturned /\ Len(call.returns) >= 2 /\ ret.out.raised = "none") =>
        LET variance == Moment(call.returns, 2)
            annualized == FMul(FMean(call.returns), Num(TradingDays))
        IN  IF variance = Zero
            THEN ret.out.metrics.sharpe_ratio = NaN
            ELSE ret.out.metrics.sharpe_ratio =
                   [k |-> "quot", num |-> annualized,
                    den |-> [k |-> "sqrt", sq |-> FMul(variance, Num(TradingDays))]]

SolverReported ==
    /\ call.fn \in {"maximize_sharpe_ratio", "global_minimum_variance"}
    /\ ret.done
    /\ ret.out.solver_ran

\* C2: when the solver reports that it did not converge, maximize_sharpe_ratio
\* and global_minimum_variance raise OptimizationDidNotConvergeError; weights
\* are returned only when the solver reported success.
C2_NonConvergenceSurfaced ==
    SolverReported =>
        IF ret.solver[1].success
        THEN ret.out.raised = "none"
        ELSE ret.out.raised = "OptimizationDidNotConvergeError" /\ ret.out.x = <<>>

OptimizerReturned ==
    /\ call.fn \in {"perform_portfolio_optimization", "maximize_sharpe_ratio",
                    "global_minimum_variance"}
    /\ ret.done

\* C5: every optimization called with fewer than 2 assets fails with
\* InsufficientAssetsError, without running the solver or returning weights.
C5_FewerThanTwoAssetsRejected ==
    (OptimizerReturned /\ call.num_stocks < 2) =>
        /\ ret.out.raised = "InsufficientAssetsError"
        /\ ~ret.out.solver_ran

Simulated ==
    /\ call.fn = "perform_monte_carlo_var"
    /\ ret.done
    /\ ret.out.raised = "none"
    /\ ~ret.out.warning

\* C7: simulated VaR is the 5th percentile of the terminal values, simulated
\* CVaR is the mean of exactly the terminal values at or below it, hence
\* CVaR <= VaR; values before the last step enter neither.
C7_SimulatedTailOnTerminalValues ==
    Simulated =>
        /\ ret.out.var_95 = Percentile(ret.out.terminal, 5)
        /\ ret.out.cvar_95 =
              TerminalTailMean(SimulatedReturns(call.simulations), ret.out.var_95)
        /\ FLe(ret.out.cvar_95, ret.out.var_95)

\* C3: no error is swallowed: a run in which an exception was raised ends
\* with a typed error reaching the caller or with the failure shown.
C3_NoErrorSwallowed ==
    \A s \in Sessions :
        (pc[s] = "done" /\ raised[s] # {}) =>
            \/ outcome[s] = "raised"
            \/ \E m \in messages[s] : m.level = "error"

Analysed(s) == pc[s] = "done" /\ view[s].reached

\* a message that tells the user a ticker was left out of the analysis
ReportsDropped(m, t) == m.about = t /\ m # StockValueError(t)

\* C4: with two or more holdings and the price download failing for one
\* ticker, the analysis runs over the tickers that were fetched (it has
\* returns to work on, weighted over those tickers) and the dropped ticker
\* is reported.
C4_FetchFailureKeepsSubset ==
    \A s \in Sessions :
        (/\ Analysed(s)
         /\ Len(view[s].tickers) >= 2
         /\ Cardinality(view[s].failed) = 1) =>
            /\ view[s].returns # <<>>
            /\ Len(view[s].weights) = Len(view[s].tickers) - 1
            /\ \A t \in view[s].failed : \E m \in messages[s] : ReportsDropped(m, t)

\* the position of ticker t among the columns of the price table
ColumnOf(v, t) == CHOOSE c \in 1..Len(v.columns) : v.columns[c] = t

\* C8: in every period the portfolio return is the sum over the holdings of
\* the holding's normalized weight times the return of that same ticker,
\* whatever the order of the price table's columns.
C8_PortfolioReturnByAsset ==
    \A s \in Sessions :
        Analysed(s) =>
            LET v == view[s]
                held == portfolio[s]
                w == Weights(held)
            IN  /\ Len(v.portfolio_returns) = Len(v.returns)
                /\ \A r \in 1..Len(v.returns) :
                      v.portfolio_returns[r] =
                          FSum([i \in 1..Len(held) |->
                                  FMul(w[i], v.returns[r][ColumnOf(v, held[i].t)])])

\* C9: in every run that reaches the analysis the weight vector has one
\* entry per held ticker, every entry is a non-negative number, and the
\* entries sum to 1.
C9_WeightsNormalized ==
    \A s \in Sessions :
        view[s].reached =>
            /\ Len(view[s].weights) = Cardinality(KeySet(portfolio[s]))
            /\ Len(view[s].weights) = Len(view[s].tickers)
            /\ \A i \in 1..Len(view[s].weights) :
                  IsNum(view[s].weights[i]) /\ view[s].weights[i].n >= 0
            /\ FSum(view[s].weights) = Num(1)

C9_Witness ==
    \E s \in Sessions :
        /\ view[s].reached
        /\ Len(view[s].weights) = 2
        /\ view[s].weights[1] # view[s].weights[2]
        /\ Len(store) = 2

Quiescent == \A s \in Sessions : pc[s] \in {"idle", "done"}

\* C10: no add is lost: once every session has finished its run, the
\* persisted quantity of each ticker is its initial quantity (none) plus
\* everything the sessions added to it.
C10_NoAddLost ==
    Quiescent => \A t \in Tickers : Qty(store, t) = added[t]

====
